---- MODULE Spec2Model ----
(***************************************************************************)
(* Model of the in-memory similarity index of unibot.ai                    *)
(* (app/services/vector_store.py): the VectorStore singleton, its FAISS    *)
(* IndexFlatL2 structure, the parallel chunk-record list and the two       *)
(* persistence artifacts written by save_index / read by load_index.       *)
(*                                                                         *)
(* Vectors are sequences of small naturals; float32 represents them        *)
(* exactly, so astype('float32') and float(...) keep their values and      *)
(* squared Euclidean distances are computed on the integers.               *)
(* A chunk record carries, next to the document keys, the field `vec`:     *)
(* the embedding of its text, that is the vector it is added with.  The    *)
(* program never reads it; it lets the properties say which vector a       *)
(* record belongs to.                                                      *)
(***************************************************************************)
EXTENDS Integers, Sequences, FiniteSets, TLC

\* ------------------------------------------------------------------ bounds
MaxEntries == 2       \* add_documents is called while the result has at most this many entries
MaxBatch == 2         \* longest batch handed to add_documents
MaxK == 3             \* largest k handed to search
MaxText == 2          \* longest text a generation strategy answers with
MaxThreads == 2       \* threads that construct VectorStore()
MaxStored == 5        \* most chunks the Chunk Store holds at a startup

\* --------------------------------------------------------------- constants
DefaultDimension == 384

\* Python's None for the index attribute, and for a missing record key
None == [none |-> TRUE]
NoId == -1

\* the dimensions and vectors callers use
Dims == {1, 2}
Vectors == {<<0>>, <<1>>, <<1, 1>>}

DocIds == {0, 1}

\* The chunks of the Chunk Store as callers hand them to the index, each
\* with the embedding of its text: the owning document is under 'doc_id' or
\* under 'document_id'.
Corpus ==
    {[doc_id |-> 0, document_id |-> NoId, vec |-> <<0>>],
     [doc_id |-> 1, document_id |-> NoId, vec |-> <<1>>],
     [doc_id |-> NoId, document_id |-> 1, vec |-> <<1, 1>>]}

\* the document a record belongs to
DocOf(chunk) == IF chunk.doc_id # NoId THEN chunk.doc_id ELSE chunk.document_id

\* --------------------------------------------------------- sequence helpers
RECURSIVE SelectIdx(_, _)
\* the 0-based positions i >= from, ascending, that pass the test of a loop:
\* passes[i + 1] tells whether the element at position i passes
SelectIdx(passes, from) ==
    IF from >= Len(passes) THEN <<>>
    ELSE IF passes[from + 1] THEN <<from>> \o SelectIdx(passes, from + 1)
    ELSE SelectIdx(passes, from + 1)

Min2(a, b) == IF a <= b THEN a ELSE b

\* ------------------------------------------------------------------ FAISS
\* faiss.IndexFlatL2(dimension)
IndexFlatL2(d) == [d |-> d, xb |-> <<>>]

ntotal(ix) == Len(ix.xb)

RECURSIVE SumSq(_, _, _)
SumSq(a, b, i) ==
    IF i > Len(a) THEN 0
    ELSE (a[i] - b[i]) * (a[i] - b[i]) + SumSq(a, b, i + 1)

\* squared Euclidean distance, the metric of IndexFlatL2
L2sqr(a, b) == SumSq(a, b, 1)

\* (distance, position) order of the result heap: smaller distance first,
\* equal distances by lower position
Closer(ix, q, i, j) ==
    \/ L2sqr(ix.xb[i + 1], q) < L2sqr(ix.xb[j + 1], q)
    \/ /\ L2sqr(ix.xb[i + 1], q) = L2sqr(ix.xb[j + 1], q)
       /\ i < j

RECURSIVE Nearest(_, _, _, _)
\* the k nearest of the positions in `left`, padded with label -1
Nearest(ix, q, k, left) ==
    IF k = 0 THEN <<>>
    ELSE IF left = {} THEN <<[idx |-> -1, distance |-> -1]>> \o Nearest(ix, q, k - 1, left)
    ELSE LET best == CHOOSE i \in left : \A j \in left \ {i} : Closer(ix, q, i, j)
         IN  <<[idx |-> best, distance |-> L2sqr(ix.xb[best + 1], q)]>>
                 \o Nearest(ix, q, k - 1, left \ {best})

\* index.search(vector, k) for one query row: k (distance, label) pairs
IndexSearch(ix, q, k) == Nearest(ix, q, k, 0..(ntotal(ix) - 1))

\* index.add(vectors): appends the rows in order
IndexAdd(ix, rows) == [ix EXCEPT !.xb = ix.xb \o rows]

\* ------------------------------------------------------------- VectorStore
\* A store value S is the triple of attributes of the VectorStore instance.
\* The operations below return the store after the call together with what
\* the call returned ("raise" when an exception left the method).

\* VectorStore.__new__: the attributes of the first instance
NewStore == [index |-> None, chunks |-> <<>>, dimension |-> DefaultDimension]

initialize_index(S, dimension) ==
    [index |-> IndexFlatL2(dimension), chunks |-> <<>>, dimension |-> dimension]

\* add_documents whose index.add takes rows of any length
add_documents_unchecked(S, embeddings, chunks_metadata) ==
    IF Len(embeddings) = 0
    THEN [S |-> S, ret |-> "raise"]
    ELSE LET S1 == IF S.index = None
                   THEN initialize_index(S, Len(embeddings[1]))
                   ELSE S
         IN  [S |-> [S1 EXCEPT !.index = IndexAdd(S1.index, embeddings),
                               !.chunks = S1.chunks \o chunks_metadata],
              ret |-> "None"]

\* embeddings and chunks_metadata have the same length
add_documents(S, embeddings, chunks_metadata) ==
    IF S.index = None /\ Len(embeddings) = 0
    THEN [S |-> S, ret |-> "raise"]                      \* embeddings[0]
    ELSE LET S1 == IF S.index = None
                   THEN initialize_index(S, Len(embeddings[1]))
                   ELSE S
         IN  IF \/ Len(embeddings) = 0
                \/ \E i \in 1..Len(embeddings) : Len(embeddings[i]) # S1.index.d
             THEN [S |-> S1, ret |-> "raise"]            \* index.add rejects the shape
             ELSE [S |-> [S1 EXCEPT !.index = IndexAdd(S1.index, embeddings),
                                    !.chunks = S1.chunks \o chunks_metadata],
                   ret |-> "None"]

Truthy(x) == x # NoId /\ x # 0

\* chunk.get('doc_id') or chunk.get('document_id')
c_doc_id(chunk) == IF Truthy(chunk.doc_id) THEN chunk.doc_id ELSE chunk.document_id

\* the positions remove_document keeps
keep_indices(S, doc_id) ==
    SelectIdx([i \in 1..Len(S.chunks) |-> c_doc_id(S.chunks[i]) # doc_id], 0)

\* the vectors remove_document reconstructs: position i is skipped when
\* self.index.reconstruct(i) raises
Reconstructed(S, keep) ==
    LET InIndex(i) == S.index # None /\ i < ntotal(S.index)
        ok == SelectIdx([j \in 1..Len(keep) |-> InIndex(keep[j])], 0)
    IN  [j \in 1..Len(ok) |-> S.index.xb[keep[ok[j] + 1] + 1]]

\* remove_document without the return of line 55
remove_document_always_rebuilds(S, doc_id) ==
    IF S.index = None \/ Len(S.chunks) = 0
    THEN [S |-> S, ret |-> "None", rebuilt |-> FALSE]
    ELSE LET keep == keep_indices(S, doc_id)
             new_chunks == [j \in 1..Len(keep) |-> S.chunks[keep[j] + 1]]
             vectors == Reconstructed(S, keep)
         IN  IF \E j \in 1..Len(vectors) : Len(vectors[j]) # S.dimension
             THEN [S |-> S, ret |-> "raise", rebuilt |-> TRUE]
             ELSE [S |-> [S EXCEPT !.index = IndexAdd(IndexFlatL2(S.dimension), vectors),
                                   !.chunks = new_chunks],
                   ret |-> "None", rebuilt |-> TRUE]

\* `rebuilt` tells whether the call allocated a new index (line 58)
remove_document(S, doc_id) ==
    IF S.index = None \/ Len(S.chunks) = 0
    THEN [S |-> S, ret |-> "None", rebuilt |-> FALSE]
    ELSE LET keep == keep_indices(S, doc_id)
             new_chunks == [j \in 1..Len(keep) |-> S.chunks[keep[j] + 1]]
             vectors == Reconstructed(S, keep)
         IN  IF Len(keep) = Len(S.chunks)
             THEN [S |-> S, ret |-> "None", rebuilt |-> FALSE]
             ELSE IF \E j \in 1..Len(vectors) : Len(vectors[j]) # S.dimension
             THEN [S |-> S, ret |-> "raise", rebuilt |-> TRUE]   \* new_index.add rejects the shape
             ELSE [S |-> [S EXCEPT !.index = IndexAdd(IndexFlatL2(S.dimension), vectors),
                                   !.chunks = new_chunks],
                   ret |-> "None", rebuilt |-> TRUE]

\* the result list built from the labels FAISS returned; each result is the
\* copied record and its distance, and (history) the label and the vector
\* that were hit
Results(S, hits) ==
    LET Usable(h) == h.idx # -1 /\ h.idx < Len(S.chunks)
        ok == SelectIdx([j \in 1..Len(hits) |-> Usable(hits[j])], 0)
    IN  [j \in 1..Len(ok) |->
            [chunk |-> S.chunks[hits[ok[j] + 1].idx + 1],
             distance |-> hits[ok[j] + 1].distance,
             idx |-> hits[ok[j] + 1].idx,
             hit |-> S.index.xb[hits[ok[j] + 1].idx + 1]]]

\* search without the ntotal == 0 test
search_unguarded(S, query_vector, k) ==
    IF S.index = None
    THEN {[raised |-> FALSE, results |-> <<>>]}
    ELSE IF Len(query_vector) # S.index.d \/ k = 0
    THEN {[raised |-> TRUE, results |-> <<>>]}
    ELSE {[raised |-> FALSE, results |-> Results(S, IndexSearch(S.index, query_vector, k))]}

\* the outcomes of search(query_vector, k).  faiss checks the query's
\* dimension, and k > 0 in the builds that assert it; the others answer
\* k = 0 with no labels.
search(S, query_vector, k) ==
    IF S.index = None \/ ntotal(S.index) = 0
    THEN {[raised |-> FALSE, results |-> <<>>]}
    ELSE IF Len(query_vector) # S.index.d
    THEN {[raised |-> TRUE, results |-> <<>>]}
    ELSE IF k = 0
    THEN {[raised |-> TRUE, results |-> <<>>], [raised |-> FALSE, results |-> <<>>]}
    ELSE {[raised |-> FALSE, results |-> Results(S, IndexSearch(S.index, query_vector, k))]}

\* clear that calls initialize_index() with its default argument
clear_default_dimension(S) ==
    initialize_index([S EXCEPT !.index = None, !.chunks = <<>>], DefaultDimension)

clear(S) ==
    initialize_index([S EXCEPT !.index = None, !.chunks = <<>>], S.dimension)

\* get_stats that reports the default dimension
get_stats_default_dimension(S) ==
    [total_vectors |-> IF S.index # None THEN ntotal(S.index) ELSE 0,
     dimension |-> DefaultDimension]

get_stats(S) ==
    [total_vectors |-> IF S.index # None THEN ntotal(S.index) ELSE 0,
     dimension |-> S.dimension]

\* ------------------------------------------------------------- persistence
\* The two artifacts at filepath and filepath + '.meta'.  An artifact is
\* missing, corrupt (present but not readable as what it should be), or
\* holds what was written.
Missing == [kind |-> "missing"]
Corrupt == [kind |-> "corrupt"]

\* faiss.write_index: dimension and rows of the flat index
IndexArtifact(ix) == [kind |-> "index", d |-> ix.d, xb |-> ix.xb]
\* pickle.dump({'chunks': ..., 'dimension': ...})
MetaArtifact(S) == [kind |-> "meta", chunks |-> S.chunks, dimension |-> S.dimension]
\* faiss.read_index
ReadIndex(a) == [d |-> a.d, xb |-> a.xb]

exists(a) == a # Missing

\* how the file system answers a call: save_index can fail before it has
\* written anything (write_index raises) or while it writes the metadata
\* (the file is open for writing, pickle.dump raises); load_index can fail
\* reading either artifact
SaveIO == {"ok", "write_index_fails", "dump_fails"}
LoadIO == {"ok", "read_index_fails", "meta_read_fails"}

\* F = [idx, meta] are the artifacts before the call
save_index(S, F, io) ==
    IF S.index = None THEN [F |-> F, ret |-> "None"]
    ELSE IF io = "write_index_fails" THEN [F |-> F, ret |-> "False"]
    ELSE IF io = "dump_fails"
    THEN [F |-> [idx |-> IndexArtifact(S.index), meta |-> Corrupt], ret |-> "False"]
    ELSE [F |-> [idx |-> IndexArtifact(S.index), meta |-> MetaArtifact(S)], ret |-> "True"]

load_index(S, F, io) ==
    IF ~exists(F.idx) THEN [S |-> S, ret |-> "None"]
    ELSE IF F.idx = Corrupt \/ io = "read_index_fails" THEN [S |-> S, ret |-> "False"]
    ELSE LET S1 == [S EXCEPT !.index = ReadIndex(F.idx)]
         IN  IF ~exists(F.meta) THEN [S |-> S1, ret |-> "True"]
             ELSE IF F.meta = Corrupt \/ io = "meta_read_fails"
             THEN [S |-> S1, ret |-> "False"]
             ELSE [S |-> [S1 EXCEPT !.chunks = F.meta.chunks,
                                    !.dimension = F.meta.dimension],
                   ret |-> "True"]

index_exists(F) == exists(F.idx) /\ exists(F.meta)

\* --------------------------------------------------- VectorStore.__new__
\* The class attribute _instance is None or names an instance; instances are
\* numbered in the order super().__new__ made them; `attrs` names the
\* attributes of an instance that have been assigned (reading another one
\* raises AttributeError, so its value here is never read).
NoInstance == 0
Threads == 1..MaxThreads
Attrs == {"index", "chunks", "dimension"}

\* super(VectorStore, cls).__new__(cls): an object without attributes
Blank == [index |-> None, chunks |-> <<>>, dimension |-> 0, attrs |-> {}]

\* the chunk a thread adds through the instance it got
ThreadChunk == [doc_id |-> 1, document_id |-> NoId, vec |-> <<1>>]

\* ---------------------------------------------------------------- state
VARIABLES
    index,        \* VectorStore.index: None or the flat index
    chunks,       \* VectorStore.chunks
    dimension,    \* VectorStore.dimension
    idxFile,      \* the artifact at filepath
    metaFile,     \* the artifact at filepath + '.meta'
    ret,          \* the last call made on the store and what it returned
    track,        \* whether this run keeps the two histories below
    gone,         \* history: documents removed and not stored again since
    expected,     \* history: entries added minus entries of removed documents
    rm,           \* thread running remove_document: position and locals
    wr,           \* thread running add_documents or clear: position and locals
    rd,           \* thread running search: position, locals, result
    base,         \* history: the store when the first of these threads started
    gen,          \* a call of AIService.generate_answer: position, locals, result
    boot,         \* a run of create_app's index initialisation: position and locals
    inst          \* VectorStore._instance, the instances made, and the constructing threads

storeVars == <<index, chunks, dimension>>
fileVars == <<idxFile, metaFile>>
histVars == <<track, gone, expected>>
thrVars == <<rm, wr, rd, base>>
svcVars == <<gen, boot, inst>>
vars == <<index, chunks, dimension, idxFile, metaFile, ret, track, gone, expected,
          rm, wr, rd, base, gen, boot, inst>>

Self == [index |-> index, chunks |-> chunks, dimension |-> dimension]
Files == [idx |-> idxFile, meta |-> metaFile]

SetStore(S) ==
    /\ index' = S.index
    /\ chunks' = S.chunks
    /\ dimension' = S.dimension

\* artifacts an earlier process may have left at the path: one 1-dimensional
\* vector with its record, or the index artifact alone
StaleChunk == [doc_id |-> 1, document_id |-> NoId, vec |-> <<1>>]
StaleIndex == [kind |-> "index", d |-> 1, xb |-> <<StaleChunk.vec>>]
StaleMeta == [kind |-> "meta", chunks |-> <<StaleChunk>>, dimension |-> 1]

\* the state after the first VectorStore() of a process
Constructed ==
    /\ index = NewStore.index
    /\ chunks = NewStore.chunks
    /\ dimension = NewStore.dimension
    /\ ret = [op |-> "new"]
    /\ gone = {}
    /\ expected = 0
    /\ rm = [pc |-> "idle"]
    /\ wr = [pc |-> "idle"]
    /\ rd = [pc |-> "idle"]
    /\ base = [started |-> FALSE, S0 |-> NewStore]
    /\ gen = [pc |-> "idle"]
    /\ boot = [pc |-> "idle"]
    /\ inst = [cls |-> NoInstance, objs |-> <<>>,
               thr |-> [t \in Threads |-> [pc |-> "idle", got |-> NoInstance]]]

Init ==
    /\ Constructed
    /\ \E F \in {[idx |-> Missing, meta |-> Missing],
                [idx |-> StaleIndex, meta |-> StaleMeta],
                [idx |-> StaleIndex, meta |-> Missing]} :
           idxFile = F.idx /\ metaFile = F.meta
    /\ track = FALSE

\* the documents of the records of a chunk list
DocsIn(cs) == {DocOf(cs[i]) : i \in 1..Len(cs)}

\* the number of records of cs that belong to document d
Matching(cs, d) == Cardinality({i \in 1..Len(cs) : DocOf(cs[i]) = d})

\* the batches a caller can hand to add_documents: n chunks of one dimension
Batches(n) ==
    UNION {[1..n -> {c \in Corpus : Len(c.vec) = d}] : d \in Dims}

Embeddings(batch) == [i \in 1..Len(batch) |-> batch[i].vec]

\* the length of the vectors of a batch, 0 for the empty batch
BatchDim(batch) == IF Len(batch) = 0 THEN 0 ELSE Len(batch[1].vec)

Initialize(d) ==
    /\ SetStore(initialize_index(Self, d))
    /\ ret' = [op |-> "initialize", val |-> "None"]
    /\ expected' = 0
    /\ UNCHANGED <<svcVars, fileVars, track, gone, thrVars>>

Add(batch) ==
    LET r == add_documents(Self, Embeddings(batch), batch)
        stored == track /\ r.ret = "None"
    IN  /\ Len(chunks) + Len(batch) <= MaxEntries
        /\ get_stats(Self).total_vectors + Len(batch) <= MaxEntries
        /\ SetStore(r.S)
        /\ ret' = [op |-> "add", val |-> r.ret, d |-> BatchDim(batch)]
        /\ gone' = IF stored THEN gone \ DocsIn(batch) ELSE gone
        /\ expected' = IF stored THEN expected + Len(batch) ELSE expected
        /\ UNCHANGED <<svcVars, fileVars, track, thrVars>>

Remove(doc_id) ==
    LET r == remove_document(Self, doc_id)
    IN  /\ track => expected >= Matching(chunks, doc_id)
        /\ SetStore(r.S)
        /\ ret' = [op |-> "remove", val |-> r.ret, doc_id |-> doc_id, rebuilt |-> r.rebuilt]
        /\ gone' = IF track /\ r.ret = "None" THEN gone \cup {doc_id} ELSE gone
        /\ expected' = IF track THEN expected - Matching(chunks, doc_id) ELSE expected
        /\ UNCHANGED <<svcVars, fileVars, track, thrVars>>

Search(query_vector, k) ==
    /\ \E out \in search(Self, query_vector, k) :
           ret' = [op |-> "search", val |-> out]
    /\ UNCHANGED <<svcVars, storeVars, fileVars, histVars, thrVars>>

Clear ==
    /\ SetStore(clear(Self))
    /\ ret' = [op |-> "clear", val |-> "None"]
    /\ expected' = 0
    /\ UNCHANGED <<svcVars, fileVars, track, gone, thrVars>>

Stats ==
    /\ ret' = [op |-> "stats", val |-> get_stats(Self)]
    /\ UNCHANGED <<svcVars, storeVars, fileVars, histVars, thrVars>>

Snapshot(io) ==
    LET r == save_index(Self, Files, io)
    IN  /\ idxFile' = r.F.idx
        /\ metaFile' = r.F.meta
        /\ ret' = [op |-> "snapshot", val |-> r.ret, io |-> io]
        /\ UNCHANGED <<svcVars, storeVars, histVars, thrVars>>

Restore(io) ==
    LET r == load_index(Self, Files, io)
    IN  /\ SetStore(r.S)
        /\ ret' = [op |-> "restore", val |-> r.ret, io |-> io]
        /\ UNCHANGED <<svcVars, fileVars, histVars, thrVars>>

Exists ==
    /\ ret' = [op |-> "exists", val |-> index_exists(Files)]
    /\ UNCHANGED <<svcVars, storeVars, fileVars, histVars, thrVars>>

\* every operation of the store, called one at a time
Next ==
    \/ \E d \in Dims : Initialize(d)
    \/ \E n \in 0..MaxBatch : \E batch \in Batches(n) : Add(batch)
    \/ \E d \in DocIds : Remove(d)
    \/ \E q \in Vectors, k \in 0..MaxK : Search(q, k)
    \/ Clear
    \/ Stats
    \/ \E io \in SaveIO : Snapshot(io)
    \/ \E io \in LoadIO : Restore(io)
    \/ Exists

Spec == Init /\ [][Next]_vars

\* The in-memory operations alone, with the histories kept: the index of a
\* process that never touches the artifacts.
InitCore ==
    /\ Constructed
    /\ idxFile = Missing
    /\ metaFile = Missing
    /\ track = TRUE

NextCore ==
    \/ \E d \in Dims : Initialize(d)
    \/ \E n \in 0..MaxBatch : \E batch \in Batches(n) : Add(batch)
    \/ \E d \in DocIds : Remove(d)
    \/ \E q \in Vectors, k \in 0..MaxK : Search(q, k)
    \/ Clear
    \/ Stats

SpecCore == InitCore /\ [][NextCore]_vars

\* ------------------------------------------------------- concurrent callers
\* The store has no lock: request threads and background tasks call the same
\* instance.  After the index has been filled, one thread calls
\* remove_document, one calls add_documents or clear, and one calls search;
\* each makes one call, and the calls interleave between the statements that
\* read or assign the instance's attributes.

InitConc ==
    /\ Constructed
    /\ idxFile = Missing
    /\ metaFile = Missing
    /\ track = FALSE

\* the index is filled before the threads start
Fill(batch) ==
    /\ ~base.started
    /\ Add(batch)

\* the first thread to start records the store
Started == IF base.started THEN base ELSE [started |-> TRUE, S0 |-> Self]

\* remove_document, lines 38-55: the guard, the scan of self.chunks, and the
\* return when nothing is to remove
RemoveScan(doc_id) ==
    LET keep == keep_indices(Self, doc_id)
    IN  /\ rm.pc = "idle"
        /\ rm' = IF index = None \/ Len(chunks) = 0 \/ Len(keep) = Len(chunks)
                 THEN [pc |-> "returned", doc_id |-> doc_id]
                 ELSE [pc |-> "rebuild", doc_id |-> doc_id, keep |-> keep,
                       new_chunks |-> [j \in 1..Len(keep) |-> chunks[keep[j] + 1]]]
        /\ base' = Started
        /\ UNCHANGED <<svcVars, storeVars, fileVars, ret, histVars, wr, rd>>

\* lines 58-75: the new index, filled from self.index as it is now
RemoveRebuild ==
    LET vectors == Reconstructed(Self, rm.keep)
    IN  /\ rm.pc = "rebuild"
        /\ rm' = IF \E j \in 1..Len(vectors) : Len(vectors[j]) # dimension
                 THEN [pc |-> "returned", doc_id |-> rm.doc_id]
                 ELSE [pc |-> "swap_index", doc_id |-> rm.doc_id,
                       new_index |-> IndexAdd(IndexFlatL2(dimension), vectors),
                       new_chunks |-> rm.new_chunks]
        /\ UNCHANGED <<svcVars, storeVars, fileVars, ret, histVars, wr, rd, base>>

\* line 77
RemoveSwapIndex ==
    /\ rm.pc = "swap_index"
    /\ index' = rm.new_index
    /\ rm' = [pc |-> "swap_chunks", doc_id |-> rm.doc_id, new_chunks |-> rm.new_chunks]
    /\ UNCHANGED <<svcVars, chunks, dimension, fileVars, ret, histVars, wr, rd, base>>

\* line 78
RemoveSwapChunks ==
    /\ rm.pc = "swap_chunks"
    /\ chunks' = rm.new_chunks
    /\ rm' = [pc |-> "returned", doc_id |-> rm.doc_id]
    /\ UNCHANGED <<svcVars, index, dimension, fileVars, ret, histVars, wr, rd, base>>

\* add_documents, lines 30-34: the first initialization and index.add
AddIndex(batch) ==
    LET r == add_documents(Self, Embeddings(batch), batch)
    IN  /\ wr.pc = "idle"
        /\ Len(chunks) + Len(batch) <= MaxEntries
        /\ get_stats(Self).total_vectors + Len(batch) <= MaxEntries
        /\ index' = r.S.index
        /\ dimension' = r.S.dimension
        /\ chunks' = IF index = None /\ Len(batch) > 0 THEN <<>> ELSE chunks
        /\ wr' = [pc |-> IF r.ret = "raise" THEN "returned" ELSE "extend",
                  op |-> "add", batch |-> batch]
        /\ base' = Started
        /\ UNCHANGED <<svcVars, fileVars, ret, histVars, rm, rd>>

\* line 35
AddChunks ==
    /\ wr.pc = "extend"
    /\ chunks' = chunks \o wr.batch
    /\ wr' = [wr EXCEPT !.pc = "returned"]
    /\ UNCHANGED <<svcVars, index, dimension, fileVars, ret, histVars, rm, rd, base>>

\* clear, lines 97-98
ClearDrop ==
    /\ wr.pc = "idle"
    /\ index' = None
    /\ chunks' = <<>>
    /\ wr' = [pc |-> "clear_init", op |-> "clear"]
    /\ base' = Started
    /\ UNCHANGED <<svcVars, dimension, fileVars, ret, histVars, rm, rd>>

\* line 99
ClearInit ==
    /\ wr.pc = "clear_init"
    /\ SetStore(initialize_index(Self, dimension))
    /\ wr' = [wr EXCEPT !.pc = "returned"]
    /\ UNCHANGED <<svcVars, fileVars, ret, histVars, rm, rd, base>>

\* search, lines 81-85: the guard and index.search on self.index
SearchIndex(query_vector, k) ==
    /\ rd.pc = "idle"
    /\ IF index # None /\ ntotal(index) > 0 /\ Len(query_vector) = index.d /\ k > 0
       THEN rd' = [pc |-> "collect", hits |-> IndexSearch(index, query_vector, k),
                   searched |-> index]
       ELSE \E out \in search(Self, query_vector, k) :
                rd' = [pc |-> "returned", out |-> out, collected |-> FALSE]
    /\ base' = Started
    /\ UNCHANGED <<svcVars, storeVars, fileVars, ret, histVars, rm, wr>>

\* lines 87-94: the results, from self.chunks as it is now; `seen` is the
\* index that was searched with the chunk list that was read
SearchCollect ==
    LET seen == [index |-> rd.searched, chunks |-> chunks, dimension |-> dimension]
    IN  /\ rd.pc = "collect"
        /\ rd' = [pc |-> "returned",
                  out |-> [raised |-> FALSE, results |-> Results(seen, rd.hits)],
                  collected |-> TRUE, seen |-> seen]
        /\ UNCHANGED <<svcVars, storeVars, fileVars, ret, histVars, rm, wr, base>>

NextConc ==
    \/ \E n \in 1..MaxBatch : \E batch \in Batches(n) : Fill(batch)
    \/ \E d \in DocIds : RemoveScan(d)
    \/ RemoveRebuild
    \/ RemoveSwapIndex
    \/ RemoveSwapChunks
    \/ \E n \in 0..MaxBatch : \E batch \in Batches(n) : AddIndex(batch)
    \/ AddChunks
    \/ ClearDrop
    \/ ClearInit
    \/ \E q \in Vectors, k \in 0..MaxK : SearchIndex(q, k)
    \/ SearchCollect

SpecConc == InitConc /\ [][NextConc]_vars

\* --------------------------------------------------------------- AIService
\* Texts are sequences of characters; " " is white space.
Chars == {" ", "a"}
Texts == UNION {[1..n -> Chars] : n \in 0..MaxText}

RECURSIVE lstrip(_)
lstrip(t) == IF t # <<>> /\ Head(t) = " " THEN lstrip(Tail(t)) ELSE t

RECURSIVE rstrip(_)
rstrip(t) == IF t # <<>> /\ t[Len(t)] = " " THEN rstrip(SubSeq(t, 1, Len(t) - 1)) ELSE t

\* str.strip()
strip(t) == rstrip(lstrip(t))

\* what generate_answer can return: a str, None, the fixed message, or the
\* "Error generating answer: ..." text of line 116
Str(t) == [kind |-> "str", text |-> t]
PyNone == [kind |-> "None"]
NotAvailable == [kind |-> "Not available in uploaded documents."]
ErrorText == [kind |-> "Error generating answer"]
Unset == [kind |-> "unset"]

\* txt.strip() or "Not available in uploaded documents."
StripOrNotAvailable(t) == IF strip(t) = <<>> THEN NotAvailable ELSE Str(strip(t))

Questions == {"q1", "q2"}
Contexts == {"c1", "c2"}

\* what the provider does with client.chat_completion: the call raises, the
\* response has no choices[0] (the subscript raises), or choices[0] carries
\* a message whose content is None or a str
ChatReplies ==
    {[kind |-> "raises"], [kind |-> "no_choices"], [kind |-> "content", content |-> PyNone]}
        \cup {[kind |-> "content", content |-> Str(t)] : t \in Texts}

\* client.text_generation: raises or returns a str
TextReplies == {[kind |-> "raises"]} \cup {[kind |-> "text", text |-> t] : t \in Texts}

\* requests.post and resp.json(): either raises, the status is not 200, or
\* the body is a list whose first element is a dict, a dict, or anything
\* else; "generated_text" is missing or null (None) or a str
HttpReplies ==
    {[kind |-> "raises"], [kind |-> "status", code |-> 503], [kind |-> "json", shape |-> "other"]}
        \cup {[kind |-> "json", shape |-> sh, generated_text |-> g] :
                 sh \in {"list", "dict"}, g \in {PyNone} \cup {Str(t) : t \in Texts}}

\* lines 28-51: the client, the messages and the model name
generate_answer(question, context) ==
    [pc |-> "model", question |-> question, context |-> context,
     tried |-> <<>>, result |-> Unset]

Attempt(g, name, reply) == Append(g.tried, [name |-> name, reply |-> reply])

\* chat_completion that goes on to the next strategy after it answered
chat_completion_falls_through(g, reply) ==
    [g EXCEPT !.pc = "text", !.tried = Attempt(g, "chat", reply)]

\* lines 53-61
chat_completion(g, reply) ==
    IF reply.kind = "content"
    THEN [g EXCEPT !.pc = "returned", !.tried = Attempt(g, "chat", reply),
                   !.result = reply.content]
    ELSE [g EXCEPT !.pc = "text", !.tried = Attempt(g, "chat", reply)]

\* lines 62-79
text_generation(g, reply) ==
    IF reply.kind = "text"
    THEN [g EXCEPT !.pc = "returned", !.tried = Attempt(g, "text", reply),
                   !.result = Str(strip(reply.text))]
    ELSE [g EXCEPT !.pc = "http", !.tried = Attempt(g, "text", reply)]

\* lines 80-114
http_post(g, reply) ==
    [g EXCEPT !.pc = "returned", !.tried = Attempt(g, "http", reply),
              !.result = IF reply.kind = "json" /\ reply.shape \in {"list", "dict"}
                         THEN IF reply.generated_text = PyNone
                              THEN NotAvailable
                              ELSE StripOrNotAvailable(reply.generated_text.text)
                         ELSE NotAvailable]

GenCall(question, context) ==
    /\ gen.pc = "idle"
    /\ gen' = generate_answer(question, context)
    /\ UNCHANGED <<storeVars, fileVars, ret, histVars, thrVars, boot, inst>>

\* lines 46-51 and 115-116: reading the model name raises or not
GenModel(raises) ==
    /\ gen.pc = "model"
    /\ gen' = IF raises
              THEN [gen EXCEPT !.pc = "returned", !.result = ErrorText]
              ELSE [gen EXCEPT !.pc = "chat"]
    /\ UNCHANGED <<storeVars, fileVars, ret, histVars, thrVars, boot, inst>>

GenChat(reply) ==
    /\ gen.pc = "chat"
    /\ gen' = chat_completion(gen, reply)
    /\ UNCHANGED <<storeVars, fileVars, ret, histVars, thrVars, boot, inst>>

GenText(reply) ==
    /\ gen.pc = "text"
    /\ gen' = text_generation(gen, reply)
    /\ UNCHANGED <<storeVars, fileVars, ret, histVars, thrVars, boot, inst>>

GenHttp(reply) ==
    /\ gen.pc = "http"
    /\ gen' = http_post(gen, reply)
    /\ UNCHANGED <<storeVars, fileVars, ret, histVars, thrVars, boot, inst>>

InitGen ==
    /\ Constructed
    /\ idxFile = Missing
    /\ metaFile = Missing
    /\ track = FALSE

NextGen ==
    \/ \E q \in Questions, c \in Contexts : GenCall(q, c)
    \/ \E raises \in BOOLEAN : GenModel(raises)
    \/ \E reply \in ChatReplies : GenChat(reply)
    \/ \E reply \in TextReplies : GenText(reply)
    \/ \E reply \in HttpReplies : GenHttp(reply)

SpecGen == InitGen /\ [][NextGen]_vars

\* ------------------------------------------------ constructing the store
\* Threads call VectorStore(); a thread can be preempted between the
\* statements of __new__.  A thread that got its instance adds one chunk
\* through it.

SetThread(t, pc, got) == [inst.thr EXCEPT ![t] = [pc |-> pc, got |-> got]]

\* line 11
NewTest(t) ==
    /\ inst.thr[t].pc = "idle"
    /\ inst' = [inst EXCEPT !.thr = SetThread(t, IF inst.cls = NoInstance
                                                 THEN "create" ELSE "return", NoInstance)]
    /\ UNCHANGED <<storeVars, fileVars, ret, histVars, thrVars, gen, boot>>

\* line 12
NewCreate(t) ==
    /\ inst.thr[t].pc = "create"
    /\ inst' = [cls |-> Len(inst.objs) + 1,
                objs |-> Append(inst.objs, Blank),
                thr |-> SetThread(t, "set_index", NoInstance)]
    /\ UNCHANGED <<storeVars, fileVars, ret, histVars, thrVars, gen, boot>>

\* lines 13-15, one statement a step, each on what cls._instance is now
NewSetIndex(t) ==
    /\ inst.thr[t].pc = "set_index"
    /\ inst' = [inst EXCEPT !.objs[inst.cls].index = NewStore.index,
                            !.objs[inst.cls].attrs = @ \cup {"index"},
                            !.thr = SetThread(t, "set_chunks", NoInstance)]
    /\ UNCHANGED <<storeVars, fileVars, ret, histVars, thrVars, gen, boot>>

NewSetChunks(t) ==
    /\ inst.thr[t].pc = "set_chunks"
    /\ inst' = [inst EXCEPT !.objs[inst.cls].chunks = NewStore.chunks,
                            !.objs[inst.cls].attrs = @ \cup {"chunks"},
                            !.thr = SetThread(t, "set_dimension", NoInstance)]
    /\ UNCHANGED <<storeVars, fileVars, ret, histVars, thrVars, gen, boot>>

NewSetDimension(t) ==
    /\ inst.thr[t].pc = "set_dimension"
    /\ inst' = [inst EXCEPT !.objs[inst.cls].dimension = NewStore.dimension,
                            !.objs[inst.cls].attrs = @ \cup {"dimension"},
                            !.thr = SetThread(t, "return", NoInstance)]
    /\ UNCHANGED <<storeVars, fileVars, ret, histVars, thrVars, gen, boot>>

\* line 16
NewReturn(t) ==
    /\ inst.thr[t].pc = "return"
    /\ inst' = [inst EXCEPT !.thr = SetThread(t, "returned", inst.cls)]
    /\ UNCHANGED <<storeVars, fileVars, ret, histVars, thrVars, gen, boot>>

\* add_documents([ThreadChunk.vec], [ThreadChunk]) on the instance the thread
\* got; line 30 raises AttributeError when index is not assigned yet, and
\* line 35 when initialize_index was not needed and chunks is not assigned
UseAdd(t) ==
    LET me == inst.thr[t].got
        S == inst.objs[me]
        r == add_documents([index |-> S.index, chunks |-> S.chunks, dimension |-> S.dimension],
                           <<ThreadChunk.vec>>, <<ThreadChunk>>)
        after == [index |-> r.S.index, chunks |-> r.S.chunks, dimension |-> r.S.dimension,
                  attrs |-> IF S.index = None THEN Attrs ELSE S.attrs]
    IN  /\ inst.thr[t].pc = "returned"
        /\ IF "index" \notin S.attrs \/ (S.index # None /\ "chunks" \notin S.attrs)
           THEN inst' = [inst EXCEPT !.thr = SetThread(t, "raised", me)]
           ELSE inst' = [inst EXCEPT !.objs[me] = after,
                                     !.thr = SetThread(t, "added", me)]
        /\ UNCHANGED <<storeVars, fileVars, ret, histVars, thrVars, gen, boot>>

InitNew ==
    /\ Constructed
    /\ idxFile = Missing
    /\ metaFile = Missing
    /\ track = FALSE

NextNew ==
    \/ \E t \in Threads : NewTest(t)
    \/ \E t \in Threads : NewCreate(t)
    \/ \E t \in Threads : NewSetIndex(t)
    \/ \E t \in Threads : NewSetChunks(t)
    \/ \E t \in Threads : NewSetDimension(t)
    \/ \E t \in Threads : NewReturn(t)
    \/ \E t \in Threads : UseAdd(t)

SpecNew == InitNew /\ [][NextNew]_vars

\* ------------------------------------------------------ create_app: index
\* Lines 128-180 of create_app.  The Chunk Store and rebuild_index_from_db
\* (app.services.index_rebuilder) are not part of the sources; the rebuild
\* follows its description: it reads all chunks, embeds them batch by batch
\* with AIService.get_embeddings, skips a batch whose embedding fails, and
\* adds every other batch with add_documents.

\* chunks per batch of the rebuild
BatchSize == 2

\* the i-th chunk of the Chunk Store: two documents, embeddings of length 1
StoredChunk(i) ==
    [doc_id |-> IF i <= 3 THEN 1 ELSE 2, document_id |-> NoId, vec |-> <<i % 2>>]

ChunkStore(n) == [i \in 1..n |-> StoredChunk(i)]

\* the b-th batch (b = 1, 2, ...) of a chunk sequence
BatchOf(cs, b) == SubSeq(cs, (b - 1) * BatchSize + 1, Min2(b * BatchSize, Len(cs)))
NumBatches(cs) == (Len(cs) + BatchSize - 1) \div BatchSize

\* VectorStore.get_instance() at line 138: vector_store.py defines no
\* get_instance, so the call raises AttributeError unless one of the modules
\* imported at lines 131-134 has given the class one that returns the
\* singleton
GetInstance == {"AttributeError", "instance"}

\* get_embeddings that returns what it has when the provider fails
get_embeddings_partial(texts, fails) ==
    IF fails
    THEN [ret |-> "list", embeddings |-> <<texts[1].vec>>]
    ELSE [ret |-> "list", embeddings |-> Embeddings(texts)]

\* AIService.get_embeddings: the provider's vectors for all texts, or an
\* exception
get_embeddings(texts, fails) ==
    IF fails
    THEN [ret |-> "raise", embeddings |-> <<>>]
    ELSE [ret |-> "list", embeddings |-> Embeddings(texts)]

\* the gate that always rebuilds
needs_rebuild_always(current_stats) == TRUE

\* line 146
needs_rebuild(current_stats) == current_stats.total_vectors = 0

NotRead == [total_vectors |-> -1, dimension |-> -1]

\* create_app reaches line 128; n chunks are in the Chunk Store
BootStart(n) ==
    /\ boot.pc = "idle"
    /\ boot' = [pc |-> "instance", store |-> ChunkStore(n), before |-> Self,
                current_stats |-> NotRead, final_stats |-> NotRead,
                rebuilds |-> 0, outcomes |-> <<>>, log |-> <<>>]
    /\ UNCHANGED <<storeVars, fileVars, ret, histVars, thrVars, gen, inst>>

\* line 138, outside every try block
BootInstance(outcome) ==
    /\ boot.pc = "instance"
    /\ boot' = [boot EXCEPT !.pc = IF outcome = "instance" THEN "stats" ELSE "raised"]
    /\ UNCHANGED <<storeVars, fileVars, ret, histVars, thrVars, gen, inst>>

\* lines 144-158 and 178-180: the stats, the gate, and the call of the
\* rebuild or the skip
BootGate ==
    LET current_stats == get_stats(Self)
    IN  /\ boot.pc = "stats"
        /\ boot' = IF needs_rebuild(current_stats)
                   THEN [boot EXCEPT !.pc = "rebuild", !.current_stats = current_stats,
                                     !.rebuilds = @ + 1]
                   ELSE [boot EXCEPT !.pc = "done", !.current_stats = current_stats,
                                     !.log = Append(@, "skipping rebuild")]
        /\ UNCHANGED <<storeVars, fileVars, ret, histVars, thrVars, gen, inst>>

\* the rebuild reads the Chunk Store and that raises: caught at line 174
RebuildRaises ==
    /\ boot.pc = "rebuild"
    /\ boot.outcomes = <<>>
    /\ boot' = [boot EXCEPT !.pc = "done", !.log = Append(@, "rebuild failed")]
    /\ UNCHANGED <<storeVars, fileVars, ret, histVars, thrVars, gen, inst>>

\* one batch of the rebuild: embedded and added, or logged and skipped
RebuildBatch(fails) ==
    LET b == Len(boot.outcomes) + 1
        batch == BatchOf(boot.store, b)
        e == get_embeddings(batch, fails)
        r == add_documents(Self, e.embeddings, batch)
    IN  /\ boot.pc = "rebuild"
        /\ b <= NumBatches(boot.store)
        /\ IF e.ret = "raise"
           THEN /\ boot' = [boot EXCEPT !.outcomes = Append(@, "failed"),
                                        !.log = Append(@, "batch failed")]
                /\ UNCHANGED storeVars
           ELSE /\ SetStore(r.S)
                /\ boot' = IF r.ret = "raise"
                           THEN [boot EXCEPT !.pc = "done", !.outcomes = Append(@, "embedded"),
                                             !.log = Append(@, "rebuild failed")]
                           ELSE [boot EXCEPT !.outcomes = Append(@, "embedded")]
        /\ UNCHANGED <<fileVars, ret, histVars, thrVars, gen, inst>>

\* lines 159-172: the rebuild has returned; the final stats and their log
BootFinal ==
    LET final_stats == get_stats(Self)
    IN  /\ boot.pc = "rebuild"
        /\ Len(boot.outcomes) = NumBatches(boot.store)
        /\ boot' = [boot EXCEPT !.pc = "done", !.final_stats = final_stats,
                                !.log = Append(@, IF final_stats.total_vectors = 0
                                                  THEN "CRITICAL" ELSE "ready")]
        /\ UNCHANGED <<storeVars, fileVars, ret, histVars, thrVars, gen, inst>>

\* line 209: create_app returns the app
BootReturn ==
    /\ boot.pc = "done"
    /\ boot' = [pc |-> "idle"]
    /\ UNCHANGED <<storeVars, fileVars, ret, histVars, thrVars, gen, inst>>

\* between two runs of create_app the application stores provider embeddings
Ingest(batch) ==
    /\ boot.pc = "idle"
    /\ \A i \in 1..Len(batch) : Len(batch[i].vec) = Len(StoredChunk(1).vec)
    /\ Add(batch)

Withdraw(doc_id) ==
    /\ boot.pc = "idle"
    /\ Remove(doc_id)

InitBoot ==
    /\ Constructed
    /\ idxFile = Missing
    /\ metaFile = Missing
    /\ track = FALSE

NextBoot ==
    \/ \E n \in 0..MaxStored : BootStart(n)
    \/ \E outcome \in GetInstance : BootInstance(outcome)
    \/ BootGate
    \/ RebuildRaises
    \/ \E fails \in BOOLEAN : RebuildBatch(fails)
    \/ BootFinal
    \/ BootReturn
    \/ \E n \in 1..MaxBatch : \E batch \in Batches(n) : Ingest(batch)
    \/ \E d \in DocIds : Withdraw(d)

SpecBoot == InitBoot /\ [][NextBoot]_vars

\* ------------------------------------------------------------- properties
Queries == Vectors
Ks == 0..MaxK

\* the vectors and the records are in step: same length, and the record at
\* each position is the one its vector was added with
InSync(S) ==
    IF S.index = None THEN S.chunks = <<>>
    ELSE /\ ntotal(S.index) = Len(S.chunks)
         /\ \A i \in 1..Len(S.chunks) : S.index.xb[i] = S.chunks[i].vec

\* C1: in every reachable state the number of stored vectors equals the
\* number of stored chunk records and the record at position i is the one
\* added together with the vector at position i.
C1_VectorsAndRecordsInStep == InSync(Self)

\* the records a search outcome returns
Returned(out) == {out.results[i].chunk : i \in 1..Len(out.results)}

\* C2: once remove_document(d) has returned, no search, for any query vector
\* and any k, returns a record of document d until a record of d is added
\* again.
C2_RemovedDocumentNotReturned ==
    \A d \in gone : \A q \in Queries, k \in Ks : \A out \in search(Self, q, k) :
        \A c \in Returned(out) : DocOf(c) # d

\* what a writer call does when it runs alone
Alone(S, call) ==
    IF call.op = "add" THEN add_documents(S, Embeddings(call.batch), call.batch).S
    ELSE IF call.op = "clear" THEN clear(S)
    ELSE remove_document(S, call.doc_id).S

\* every returned record is paired with its own vector
OwnVectors(out) ==
    \A i \in 1..Len(out.results) : out.results[i].chunk.vec = out.results[i].hit

\* C3: a search that runs concurrently with remove_document sees the old
\* index with the old chunk list or the new index with the new chunk list,
\* never a mix, so it returns no record paired with a vector that is not its
\* own.
C3_SearchSeesOldOrNewPair ==
    (rd.pc = "returned" /\ rd.collected /\ wr.pc = "idle") =>
        /\ \/ rd.seen = base.S0
           \/ rm.pc # "idle" /\ rd.seen = remove_document(base.S0, rm.doc_id).S
        /\ OwnVectors(rd.out)

\* C4: when add_documents (or clear) and remove_document are called
\* concurrently the store ends as after one of the two serial orders: no
\* added entry is lost in the swap and vectors and records stay in step.
C4_WritersSerialize ==
    (rm.pc = "returned" /\ wr.pc = "returned") =>
        LET removal == [op |-> "remove", doc_id |-> rm.doc_id]
        IN  /\ \/ Self = Alone(Alone(base.S0, removal), wr)
               \/ Self = Alone(Alone(base.S0, wr), removal)
            /\ InSync(Self)

\* C5: from an empty index, after any adds and removes, total_vectors is the
\* number of entries added minus the number of entries that belonged to a
\* removed document when it was removed.
C5_TotalIsAddedMinusRemoved ==
    track => get_stats(Self).total_vectors = expected

\* loading the artifacts into a fresh structure gives the stats and the
\* search results of the current one
RoundTrip ==
    LET T == load_index(NewStore, Files, "ok").S
    IN  /\ get_stats(T) = get_stats(Self)
        /\ \A q \in Queries, k \in Ks : search(T, q, k) = search(Self, q, k)

\* C6: in every index state, snapshot(p) followed by restore(p) into a fresh
\* structure gives the same stats and the same search results, for every
\* query vector and k, as the structure that was snapshotted.
C6_RoundTripFromEveryState ==
    (ret.op = "snapshot" /\ ret.io = "ok") => RoundTrip

\* the round trip of the snapshots that returned True
RoundTripAfterSuccessfulSnapshot ==
    (ret.op = "snapshot" /\ ret.val = "True") => RoundTrip

\* an artifact restore cannot use: missing, corrupt or unreadable
BadArtifacts(F, io) ==
    \/ ~exists(F.idx) \/ F.idx = Corrupt \/ io = "read_index_fails"
    \/ ~exists(F.meta) \/ F.meta = Corrupt \/ io = "meta_read_fails"

\* C7: when either artifact is missing, corrupt or unreadable, restore
\* reports failure and leaves the vector structure, the chunk records and the
\* dimension as they were.
C7_FailedRestoreIsNoOp ==
    [][(ret'.op = "restore" /\ BadArtifacts(Files, ret'.io))
          => (ret'.val # "True" /\ UNCHANGED storeVars)]_vars

\* the artifacts hold exactly the current index, records and dimension
ArtifactsMatchStore ==
    /\ index # None
    /\ idxFile = IndexArtifact(index)
    /\ metaFile = MetaArtifact(Self)

\* C8: snapshot and restore return a boolean in every store state and for
\* every I/O outcome, and return true only when the operation succeeded: the
\* artifacts and the store hold the same index, records and dimension.
C8_PersistenceReturnsBoolean ==
    ret.op \in {"snapshot", "restore"} =>
        /\ ret.val \in {"True", "False"}
        /\ ret.val = "True" => ArtifactsMatchStore

\* C9: search on an uninitialized index or one with zero vectors returns the
\* empty sequence, without error, for every query vector and every k >= 0.
C9_SearchOnEmptyIsEmpty ==
    (index = None \/ ntotal(index) = 0) =>
        \A q \in Queries, k \in Ks :
            search(Self, q, k) = {[raised |-> FALSE, results |-> <<>>]}

C9_Witness ==
    /\ index # None
    /\ ntotal(index) = 0
    /\ ret.op = "search"
    /\ ret.val = [raised |-> FALSE, results |-> <<>>]

\* results in non-decreasing order of distance
Sorted(results) ==
    \A i, j \in 1..Len(results) : i < j => results[i].distance <= results[j].distance

\* C10: for every query of the index's dimension and every k, search returns
\* at most min(k, total_vectors) results in non-decreasing order of distance,
\* and when k exceeds the number of stored entries it returns every stored
\* entry exactly once.
C10_SearchBoundedSortedComplete ==
    index # None =>
        \A q \in Queries, k \in Ks : \A out \in search(Self, q, k) :
            (Len(q) = index.d /\ ~out.raised) =>
                /\ Len(out.results) <= Min2(k, get_stats(Self).total_vectors)
                /\ Sorted(out.results)
                /\ k > ntotal(index) =>
                       /\ Len(out.results) = ntotal(index)
                       /\ {out.results[i].idx : i \in 1..Len(out.results)}
                              = 0..(ntotal(index) - 1)

\* position p of the index is nearer to q than position r: smaller squared
\* Euclidean distance, or the same distance and inserted earlier
Nearer(S, q, p, r) ==
    \/ L2sqr(S.index.xb[p + 1], q) < L2sqr(S.index.xb[r + 1], q)
    \/ /\ L2sqr(S.index.xb[p + 1], q) = L2sqr(S.index.xb[r + 1], q)
       /\ p < r

\* results are the records of the k nearest entries of S to q, nearest
\* first, each the record added with its vector and annotated with the
\* distance of that vector
KNearest(S, q, k, results) ==
    LET n == ntotal(S.index)
        at(i) == results[i].idx
        picked == {at(i) : i \in 1..Len(results)}
    IN  /\ Len(results) = Min2(k, n)
        /\ picked \subseteq 0..(n - 1)
        /\ \A i, j \in 1..Len(results) : i < j => Nearer(S, q, at(i), at(j))
        /\ \A p \in (0..(n - 1)) \ picked : \A r \in picked : Nearer(S, q, r, p)
        /\ \A i \in 1..Len(results) :
               /\ results[i].chunk.vec = S.index.xb[at(i) + 1]
               /\ results[i].distance = L2sqr(results[i].chunk.vec, q)

\* the scenario of the claim: A:[1,0], A:[0,1], A:[1,1], B:[5,5], B:[5,6]
ScenarioChunks ==
    <<[doc_id |-> 1, document_id |-> NoId, vec |-> <<1, 0>>],
      [doc_id |-> 1, document_id |-> NoId, vec |-> <<0, 1>>],
      [doc_id |-> 1, document_id |-> NoId, vec |-> <<1, 1>>],
      [doc_id |-> 2, document_id |-> NoId, vec |-> <<5, 5>>],
      [doc_id |-> 2, document_id |-> NoId, vec |-> <<5, 6>>]>>

ScenarioStore == add_documents(NewStore, Embeddings(ScenarioChunks), ScenarioChunks).S

ScenarioAnswer ==
    \A out \in search(ScenarioStore, <<0, 0>>, 2) :
        /\ ~out.raised
        /\ [i \in 1..Len(out.results) |-> out.results[i].chunk.vec] = <<<<1, 0>>, <<0, 1>>>>
        /\ [i \in 1..Len(out.results) |-> out.results[i].distance] = <<1, 1>>

\* C11: search(q, k) on a non-empty index returns the records of the k
\* entries with the smallest squared Euclidean distance to q, each with that
\* distance, equal distances ordered by lower insertion index; in the
\* scenario, search([0,0], 2) returns the records of [1,0] then [0,1], both
\* with distance 1.
C11_SearchReturnsKNearest ==
    /\ ScenarioAnswer
    /\ (index # None /\ ntotal(index) > 0) =>
           \A q \in Queries, k \in 1..MaxK : \A out \in search(Self, q, k) :
               Len(q) = index.d => (~out.raised /\ KNearest(Self, q, k, out.results))

\* C12: remove_document(doc_id) with a doc_id that matches no stored record
\* leaves the index unchanged: no new vector structure is allocated, and the
\* index, the chunk records and the dimension are as before the call.
C12_RemoveOfAbsentDocumentIsNoOp ==
    [][(ret'.op = "remove" /\ Matching(chunks, ret'.doc_id) = 0)
          => (~ret'.rebuilt /\ ret'.val = "None" /\ UNCHANGED storeVars)]_vars

C12_Witness ==
    /\ ret.op = "remove"
    /\ ~ret.rebuilt
    /\ index # None
    /\ Len(chunks) > 0
    /\ Matching(chunks, ret.doc_id) = 0

\* C13: clear() is idempotent and preserves the dimension: after clear()
\* the index has zero vectors and no records, a second clear() changes
\* nothing, and stats().dimension is what it was before the call.
C13_ClearIdempotentKeepsDimension ==
    [][ret'.op = "clear" =>
          LET After == [index |-> index', chunks |-> chunks', dimension |-> dimension']
          IN  /\ clear(After) = After
              /\ get_stats(After).total_vectors = 0
              /\ After.chunks = <<>>
              /\ get_stats(After).dimension = get_stats(Self).dimension]_vars

C13_Witness ==
    /\ ret.op = "clear"
    /\ dimension # DefaultDimension
    /\ index = IndexFlatL2(dimension)
    /\ chunks = <<>>

\* C14: an add whose vectors do not have the length D of the initialized
\* index is rejected and leaves the index, the chunk records and the
\* dimension unchanged.
C14_MismatchedAddRejected ==
    [][(ret'.op = "add" /\ index # None /\ ret'.d # 0 /\ ret'.d # index.d)
          => (ret'.val = "raise" /\ UNCHANGED storeVars)]_vars

C14_Witness ==
    /\ ret.op = "add"
    /\ ret.val = "raise"
    /\ index # None
    /\ ntotal(index) > 0
    /\ ret.d # 0
    /\ ret.d # index.d

\* the order of the generation strategies
Strategies == <<"chat", "text", "http">>

\* the attempt raised: the call itself, or reading choices[0]
Raised(a) == a.reply.kind \in {"raises", "no_choices"}

\* C15: generate_answer tries the strategies in the order structured chat
\* call, plain text completion, raw HTTP call; a later one is attempted only
\* if every earlier one failed, and once one has succeeded no further one is
\* attempted.
C15_StrategiesInOrder ==
    gen.pc # "idle" =>
        LET n == Len(gen.tried)
        IN  /\ n <= Len(Strategies)
            /\ \A i \in 1..n : gen.tried[i].name = Strategies[i]
            /\ \A i \in 1..(n - 1) : Raised(gen.tried[i])
            /\ \A i \in 1..n : ~Raised(gen.tried[i]) => (i = n /\ gen.pc = "returned")

C15_Witness ==
    /\ gen.pc = "returned"
    /\ Len(gen.tried) = 3
    /\ gen.tried[3].reply.kind = "json"
    /\ gen.result = Str(<<"a">>)

\* the attempt failed: it raised, or the HTTP answer was unusable
Failed(a) ==
    \/ Raised(a)
    \/ a.reply.kind = "status"
    \/ a.reply.kind = "json" /\ a.reply.shape = "other"

\* the strategy answered without content: missing or empty text
NoContent(a) ==
    \/ a.reply.kind = "content" /\ a.reply.content = PyNone
    \/ a.reply.kind = "content" /\ a.reply.content # PyNone /\ strip(a.reply.content.text) = <<>>
    \/ a.reply.kind = "text" /\ strip(a.reply.text) = <<>>
    \/ /\ a.reply.kind = "json"
       /\ a.reply.shape \in {"list", "dict"}
       /\ \/ a.reply.generated_text = PyNone
          \/ a.reply.generated_text # PyNone /\ strip(a.reply.generated_text.text) = <<>>

\* C16: whenever every strategy fails, or the strategy that answered gave
\* empty or missing text, generate_answer returns exactly the fixed message
\* "Not available in uploaded documents.", never None and never an empty
\* answer.
C16_FallbackMessage ==
    (gen.pc = "returned" /\ Len(gen.tried) > 0) =>
        LET last == gen.tried[Len(gen.tried)]
        IN  (Failed(last) \/ NoContent(last)) => gen.result = NotAvailable

\* the threads that have their instance
Holders == {t \in Threads : inst.thr[t].pc \in {"returned", "added", "raised"}}

\* C17: exactly one VectorStore instance exists per process: every
\* construction, also when constructions race from several threads, yields
\* the same instance, and a later construction does not reset the entries or
\* the dimension the instance already holds.
C17_OneInstance ==
    /\ Len(inst.objs) <= 1
    /\ \A t, u \in Holders : inst.thr[t].got = inst.thr[u].got
    /\ \A t \in Threads : inst.thr[t].pc = "added" =>
           LET S == inst.objs[inst.thr[t].got]
           IN  /\ S.index # None
               /\ \E i \in 1..Len(S.chunks) : S.chunks[i] = ThreadChunk
               /\ S.dimension = Len(ThreadChunk.vec)

\* C18: at startup the rebuild is invoked at most once, and only if
\* total_vectors was 0 at that moment; when the index already holds vectors
\* the rebuild is skipped and the index is left as it was.
C18_RebuildGatedOnEmptiness ==
    boot.pc # "idle" =>
        /\ boot.rebuilds <= 1
        /\ boot.rebuilds = 1 => get_stats(boot.before).total_vectors = 0
        /\ (boot.pc = "done" /\ get_stats(boot.before).total_vectors > 0) =>
               (boot.rebuilds = 0 /\ Self = boot.before)

C18_Witness ==
    /\ boot.pc = "done"
    /\ boot.rebuilds = 0
    /\ Len(boot.store) > 0
    /\ get_stats(Self).total_vectors > 0

RECURSIVE EmbeddedChunks(_, _, _)
\* the chunks of the batches b, b + 1, ... whose embedding succeeded
EmbeddedChunks(cs, outcomes, b) ==
    IF b > Len(outcomes) THEN <<>>
    ELSE (IF outcomes[b] = "embedded" THEN BatchOf(cs, b) ELSE <<>>)
             \o EmbeddedChunks(cs, outcomes, b + 1)

\* C19: during the rebuild a batch whose embedding fails is logged, not
\* raised, and adds nothing, and every other batch is embedded and added:
\* after the rebuild total_vectors is the number of chunks of the
\* successfully embedded batches, and the index holds exactly those chunks.
C19_FailedBatchSkipped ==
    (boot.pc = "done" /\ boot.final_stats # NotRead) =>
        LET added == EmbeddedChunks(boot.store, boot.outcomes, 1)
            failed == {b \in 1..Len(boot.outcomes) : boot.outcomes[b] = "failed"}
        IN  /\ Len(boot.outcomes) = NumBatches(boot.store)
            /\ boot.final_stats.total_vectors = Len(added)
            /\ get_stats(Self).total_vectors = Len(added)
            /\ chunks = added
            /\ InSync(Self)
            /\ Cardinality({i \in 1..Len(boot.log) : boot.log[i] = "batch failed"})
                   = Cardinality(failed)

C19_Witness ==
    /\ boot.pc = "done"
    /\ Len(boot.store) = 5
    /\ boot.outcomes = <<"embedded", "failed", "embedded">>
    /\ boot.final_stats.total_vectors = 3

\* C20: get_stats() answers in every reachable state with total_vectors and
\* dimension: before any initialization 0 and the default dimension 384,
\* afterwards the current number of stored vectors and the current
\* dimension.
C20_StatsAlwaysAnswer ==
    LET stored == IF index = None THEN 0 ELSE Len(index.xb)
    IN  /\ get_stats(Self) = [total_vectors |-> stored, dimension |-> dimension]
        /\ index = None => get_stats(Self) = [total_vectors |-> 0, dimension |-> 384]
        /\ ret.op = "stats" => ret.val = [total_vectors |-> stored, dimension |-> dimension]

C20_Witness ==
    /\ ret.op = "stats"
    /\ index # None
    /\ ret.val.total_vectors = 2
    /\ ret.val.dimension = 2

\* the entries of store S that do not belong to document doc_id, in their
\* order: the positions, and whether the vector at a position can be read
Others(S, doc_id) ==
    SelectIdx([i \in 1..Len(S.chunks) |-> DocOf(S.chunks[i]) # doc_id], 0)

Readable(S, i) == S.index # None /\ i < ntotal(S.index)

\* C21: when remove_document cannot reconstruct the vector of a surviving
\* entry, the call returns without raising and drops that entry whole: the
\* records left are those of the surviving entries whose vector was read, and
\* the rebuilt index holds exactly their vectors, in the same order.
C21_UnreconstructibleEntryDropped ==
    [][(/\ ret'.op = "remove"
        /\ ret'.rebuilt
        /\ \E j \in 1..Len(keep_indices(Self, ret'.doc_id)) :
               ~Readable(Self, keep_indices(Self, ret'.doc_id)[j]))
       => LET keep == keep_indices(Self, ret'.doc_id)
              ok == SelectIdx([j \in 1..Len(keep) |-> Readable(Self, keep[j])], 0)
          IN  /\ ret'.val = "None"
              /\ chunks' = [j \in 1..Len(ok) |-> chunks[keep[ok[j] + 1] + 1]]
              /\ index'.xb = [j \in 1..Len(ok) |-> index.xb[keep[ok[j] + 1] + 1]]
              /\ Len(chunks') = ntotal(index')]_vars

\* C22: remove_document(doc_id) on an index whose vectors and records are in
\* step keeps exactly the entries of the other documents, in their order and
\* each with the vector it had, and keeps the dimension; this for every id,
\* 0 included, and for records that carry the id under 'document_id'.
C22_RemoveKeepsExactlyOthers ==
    [][(ret'.op = "remove" /\ index # None /\ InSync(Self))
       => LET others == Others(Self, ret'.doc_id)
          IN  /\ ret'.val = "None"
              /\ chunks' = [j \in 1..Len(others) |-> chunks[others[j] + 1]]
              /\ index'.xb = [j \in 1..Len(others) |-> index.xb[others[j] + 1]]
              /\ index'.d = index.d
              /\ dimension' = dimension]_vars

\* C23: a run of create_app's index initialisation never ends in an exception
\* that leaves create_app: a failed rebuild is logged and leaves the index
\* empty, and a rebuild that ends with no vectors is logged as critical.
C23_StartupSurvivesIndexFailure ==
    /\ boot.pc # "raised"
    /\ boot.pc = "done" =>
           /\ boot.log # <<>>
           /\ boot.log[Len(boot.log)] = "rebuild failed" => get_stats(Self).total_vectors = 0
           /\ (boot.final_stats # NotRead /\ boot.final_stats.total_vectors = 0)
                  => boot.log[Len(boot.log)] = "CRITICAL"

====
